---- MODULE Spec2Model ----
(***************************************************************************)
(* A model of the DDPG and TD3 agents of rl_algos: the replay buffer the   *)
(* DDPG training loop fills and samples, the agents' networks and their    *)
(* hard/soft target updates, the Bellman target and critic loss of one     *)
(* update, the delayed policy update of TD3.train, action selection, the   *)
(* checkpoint files DDPG.save writes and DDPG.load_model reads, and the    *)
(* DDPG.train loop from its call to its return.                            *)
(*                                                                         *)
(* Numbers.  Parameters, Q values and rewards are finite reals, modelled   *)
(* as integers.  gamma and tau are rationals GammaNum/GammaDen and         *)
(* tau/TauDen; a Bellman target is kept multiplied by GammaDen.  Actions   *)
(* are fixed-point numbers in units of 1/Scale.                            *)
(***************************************************************************)
EXTENDS Integers, Sequences, FiniteSets, TLC

VARIABLES
    \* the replay buffer (ddpg.replay_buffer.DDPGBuffer) and the loop around it
    capacity,        \* memory.capacity
    memory,          \* memory.memory, a list of transitions
    position,        \* memory.position, 0-based as in the code
    total_numsteps,  \* DDPG.train: environment steps taken so far
    pushed,          \* history: every transition pushed, oldest first
    sample_req,      \* the batch_size of the last memory.sample call
    sample_out,      \* what that call returned
    bop,             \* the last buffer operation
    \* the agent (DDPG or TD3)
    algo,            \* which agent class this is
    pc,              \* where the agent's code stands
    actor,           \* self.actor's parameters, by name
    actor_target,    \* self.actor_target's
    actor_perturbed, \* self.actor_perturbed's
    critic,          \* self.critic's
    critic_target,   \* self.critic_target's
    tau,             \* DDPG: self.tau; TD3: train's tau argument (over TauDen)
    max_action,      \* float(env.action_space.high[0]), in fixed point
    policy_freq,     \* TD3.train's policy_freq argument
    iterations,      \* TD3.train's iterations argument
    it,              \* TD3.train's loop variable
    loc,             \* the locals of the update being computed
    act,             \* the last action an actor produced
    cnt,             \* history: optimizer steps and target updates so far
    \* DDPG.train and the checkpoints
    train,           \* DDPG.train: its arguments, its locals, where it stands
    fs               \* the files under ./trained_models, and the last save/load

bufvars == <<capacity, memory, position, total_numsteps, pushed,
             sample_req, sample_out, bop>>

netvars == <<actor, actor_target, actor_perturbed, critic, critic_target>>

agentvars == <<algo, pc, actor, actor_target, actor_perturbed, critic,
               critic_target, tau, max_action, policy_freq, iterations, it,
               loc, act, cnt>>

loopvars == <<train, fs>>

vars == <<capacity, memory, position, total_numsteps, pushed, sample_req,
          sample_out, bop, algo, pc, actor, actor_target, actor_perturbed,
          critic, critic_target, tau, max_action, policy_freq, iterations,
          it, loc, act, cnt, train, fs>>

-----------------------------------------------------------------------------
(* Bounds *)

MaxCapacity == 3
MaxPushes == 4
MaxBatch == 2

-----------------------------------------------------------------------------
(* Helpers *)

Range(s) == {s[i] : i \in 1..Len(s)}

Min(a, b) == IF a <= b THEN a ELSE b

InsufficientDataError == "InsufficientDataError"

None == "None"

-----------------------------------------------------------------------------
(* The replay buffer *)

\* mask = torch.Tensor([not done])
MaskOf(done) == IF done THEN 0 ELSE 1

\* Transition(state, action, mask, next_state, reward); step stands for the
\* (state, action, next_state) observed at that environment step.
Transition(step, done, reward) ==
    [step |-> step, mask |-> MaskOf(done), reward |-> reward]

\* push: grow the list until it holds capacity entries, then write at position
PushMemory(mem, pos, cap, t) ==
    LET grown == IF Len(mem) < cap THEN Append(mem, None) ELSE mem
    IN  [grown EXCEPT ![pos + 1] = t]

PushPositionNoWrap(pos, cap) == pos + 1

\* push: the insertion point wraps circularly
PushPosition(pos, cap) == (pos + 1) % cap

\* len(memory)
BufLen(mem) == Len(mem)

\* the index lists a sample of k out of n slots may draw: with replacement
IndicesWithReplacement(n, k) == [1..k -> 1..n]

\* the index lists a sample of k out of n slots may draw: k distinct slots
SampleIndices(n, k) ==
    {f \in [1..k -> 1..n] : \A i, j \in 1..k : i # j => f[i] # f[j]}

\* the outcome of a call: an error, or a batch of transitions
Failed(e) == [error |-> e, batch |-> <<>>]
Returned(b) == [error |-> None, batch |-> b]

\* the batch an index list takes out of mem
Batch(mem, k, f) == Returned([i \in 1..k |-> mem[f[i]]])

SampleNoCheck(mem, k) ==
    IF Len(mem) < k
    THEN {Returned(mem)}
    ELSE {Batch(mem, k, f) : f \in SampleIndices(Len(mem), k)}

SampleWithReplacement(mem, k) ==
    IF Len(mem) < k
    THEN {Failed(InsufficientDataError)}
    ELSE {Batch(mem, k, f) : f \in IndicesWithReplacement(Len(mem), k)}

\* sample(batch_size): the outcomes of one call
Sample(mem, k) ==
    IF Len(mem) < k
    THEN {Failed(InsufficientDataError)}
    ELSE {Batch(mem, k, f) : f \in SampleIndices(Len(mem), k)}

\* DDPG.train, one environment step up to the push
TrainPush ==
    /\ total_numsteps < MaxPushes
    /\ \E done \in BOOLEAN, reward \in {0, 1} :
        LET t == Transition(total_numsteps + 1, done, reward)
        IN  /\ total_numsteps' = total_numsteps + 1
            /\ memory' = PushMemory(memory, position, capacity, t)
            /\ position' = PushPosition(position, capacity)
            /\ pushed' = Append(pushed, t)
    /\ bop' = "push"
    /\ UNCHANGED <<capacity, sample_req, sample_out>>
    /\ UNCHANGED agentvars
    /\ UNCHANGED loopvars

\* memory.sample(batch_size), called in any state of the buffer
SampleCall ==
    /\ \E k \in 1..MaxBatch :
        /\ sample_req' = k
        /\ sample_out' \in Sample(memory, k)
    /\ bop' = "sample"
    /\ UNCHANGED <<capacity, memory, position, total_numsteps, pushed>>
    /\ UNCHANGED agentvars
    /\ UNCHANGED loopvars

\* an empty buffer of the given capacity
EmptyBuffer(cap) ==
    /\ capacity = cap
    /\ memory = <<>>
    /\ position = 0
    /\ total_numsteps = 0
    /\ pushed = <<>>
    /\ sample_req = 0
    /\ sample_out = Returned(<<>>)
    /\ bop = "new"

-----------------------------------------------------------------------------
(* Numbers *)

\* the number 1.0 of an action, in fixed point: mu.clamp(-1, 1)
One == 4

\* noise_clip=0.5, in the same fixed point
NoiseClip == 2

\* discount=0.99 (gamma=0.99) is GammaNum / GammaDen
GammaNum == 99
GammaDen == 100

\* tau is a multiple of 1 / TauDen
TauDen == 2

\* the most critic updates one run of the model makes
MaxUpdates == 3

RECURSIVE SumSeq(_)
SumSeq(s) == IF s = <<>> THEN 0 ELSE s[1] + SumSeq(Tail(s))

ClampBelowOnly(x, lo, hi) == IF x < lo THEN lo ELSE x

\* Tensor.clamp(lo, hi)
Clamp(x, lo, hi) == IF x < lo THEN lo ELSE IF x > hi THEN hi ELSE x

\* torch.tanh, rounded to the fixed point: tanh(0.25) = 0.24, tanh(0.5) = 0.46,
\* tanh(0.75) = 0.64, tanh(1) = 0.76, tanh(1.25) = 0.85, tanh(1.5) = 0.91, ...
Tanh(x) ==
    LET a == IF x < 0 THEN -x ELSE x
        t == CASE a = 0 -> 0
               [] a = 1 -> 1
               [] a = 2 -> 2
               [] a \in 3..5 -> 3
               [] OTHER -> One
    IN  IF x < 0 THEN -t ELSE t

-----------------------------------------------------------------------------
(* Networks: a network is its parameters, a function from names to values *)

ActorNames == {"mu.weight", "ln1.weight"}

CriticNames == {"V1.weight"}

\* 'ln' in name
IsLayerNorm(name) == name \in {"ln1.weight", "ln1.bias", "ln2.weight", "ln2.bias"}

HardUpdateNothing(target, source) == target

\* hard_update(target, source): zip pairs the parameters of two networks of
\* one architecture, name by name
HardUpdate(target, source) == [n \in DOMAIN target |-> source[n]]

\* target.load_state_dict(source.state_dict())
LoadStateDict(target, source) == [n \in DOMAIN source |-> source[n]]

SoftUpdateSwapped(target, source, t) ==
    [n \in DOMAIN target |->
        (target[n] * t + source[n] * (TauDen - t)) \div TauDen]

\* soft_update(target, source, tau):
\* target_param * (1.0 - tau) + param * tau, rounded to the grid of values
SoftUpdate(target, source, t) ==
    [n \in DOMAIN target |->
        (target[n] * (TauDen - t) + source[n] * t) \div TauDen]

\* TD3.train: tau * param + (1 - tau) * target_param
TD3SoftUpdate(source, target, t) ==
    [n \in DOMAIN target |->
        (t * source[n] + (TauDen - t) * target[n]) \div TauDen]

\* optimizer.step(): the parameters move to any values
OptimStep(net, P) == [DOMAIN net -> P]

\* perturb_actor_parameters, the loop over params: `if 'ln' in name: pass`
\* skips nothing, so every parameter gets param += randn * current_stddev
AddNoise(params, noise) == [n \in DOMAIN params |-> params[n] + noise[n]]

-----------------------------------------------------------------------------
(* The arithmetic of one update *)

BellmanTargetNoMask(reward, mask, q) == reward * GammaDen + GammaNum * q

\* reward + gamma * mask * target_Q, times GammaDen
BellmanTarget(reward, mask, q) == reward * GammaDen + GammaNum * mask * q

\* done = 1 - d
TD3Mask(d) == 1 - d

TorchMinFirst(a, b) == a

\* torch.min(target_Q1, target_Q2), one element
TorchMin(a, b) == IF a < b THEN a ELSE b

\* F.mse_loss(estimate, target) = mean((estimate - target)^2): the sum of
\* the squares, the targets being times GammaDen; the loss is this number
\* over n * GammaDen^2
MseLoss(estimate, target) ==
    SumSeq([i \in DOMAIN estimate |->
        (estimate[i] * GammaDen - target[i]) * (estimate[i] * GammaDen - target[i])])

\* -critic(state, actor(state)).mean(): the sum of the values, negated; the
\* loss is this number over n
PolicyLoss(values) == 0 - SumSeq(values)

PolicyDueAlways(i, freq) == TRUE

\* if it % policy_freq == 0
PolicyDue(i, freq) == i % freq = 0

-----------------------------------------------------------------------------
(* The agent's state *)

NoLocals ==
    [fn |-> None, n |-> 0, done |-> <<>>, reward |-> <<>>, mask |-> <<>>,
     tq1 |-> <<>>, tq2 |-> <<>>, min_Q |-> <<>>, target_Q |-> <<>>,
     cq1 |-> <<>>, cq2 |-> <<>>, loss |-> 0, policy_loss |-> 0,
     next_action |-> <<>>, ret |-> <<>>]

NoAction == [fn |-> None, out |-> 0, param_noise |-> FALSE, action_noise |-> FALSE]

NoCounts ==
    [critic |-> 0, actor |-> 0, target |-> 0, since |-> 0, seen |-> FALSE,
     dec |-> FALSE, updated |-> FALSE, gap |-> 0, prev |-> FALSE, at |-> 0,
     base |-> 0]

\* no agent: the buffer is looked at alone
NoAgent ==
    /\ algo = None
    /\ pc = None
    /\ actor = <<>>
    /\ actor_target = <<>>
    /\ actor_perturbed = <<>>
    /\ critic = <<>>
    /\ critic_target = <<>>
    /\ tau = 0
    /\ max_action = One
    /\ policy_freq = 1
    /\ iterations = 0
    /\ it = 0
    /\ loc = NoLocals
    /\ act = NoAction
    /\ cnt = NoCounts

\* DDPG.__init__ up to line 59 and TD3.__init__ lines 21-23, 27-28: five
\* networks, each with its own random initial parameters
Allocated(D) ==
    /\ algo \in {"DDPG", "TD3"}
    /\ pc = "alloc"
    /\ actor \in [ActorNames -> D.P]
    /\ actor_target \in [ActorNames -> D.P]
    /\ actor_perturbed \in [ActorNames -> D.P]
    /\ critic \in [CriticNames -> D.P]
    /\ critic_target \in [CriticNames -> D.P]
    /\ tau \in D.Tau
    /\ max_action \in D.MaxA
    /\ policy_freq \in D.Pf
    /\ iterations = 0
    /\ it = 0
    /\ loc = NoLocals
    /\ act = NoAction
    /\ cnt = NoCounts

\* DDPG.__init__: hard_update of both targets
DDPGInit ==
    /\ algo = "DDPG"
    /\ pc = "alloc"
    /\ actor_target' = HardUpdate(actor_target, actor)
    /\ critic_target' = HardUpdate(critic_target, critic)
    /\ pc' = "idle"
    /\ UNCHANGED <<actor, actor_perturbed, critic>>
    /\ UNCHANGED <<algo, tau, max_action, policy_freq, iterations, it, loc, act, cnt>>
    /\ UNCHANGED bufvars
    /\ UNCHANGED loopvars

\* TD3.__init__: load_state_dict of both targets
TD3Init ==
    /\ algo = "TD3"
    /\ pc = "alloc"
    /\ actor_target' = LoadStateDict(actor_target, actor)
    /\ critic_target' = LoadStateDict(critic_target, critic)
    /\ pc' = "idle"
    /\ UNCHANGED <<actor, actor_perturbed, critic>>
    /\ UNCHANGED <<algo, tau, max_action, policy_freq, iterations, it, loc, act, cnt>>
    /\ UNCHANGED bufvars
    /\ UNCHANGED loopvars

-----------------------------------------------------------------------------
(* DDPG.update_parameters(batch), in its three steps *)

\* one row of a batch and of what the networks compute on it
DDPGRows(D) == [done : D.Dn, reward : D.R, q : D.Q, cq : D.CQ]

\* lines 104-130: the Bellman target, the critic loss, the critic's step
DDPGCriticStep(D) ==
    /\ algo = "DDPG"
    /\ pc = "idle"
    /\ cnt.critic < D.Upd
    /\ \E n \in D.B : \E rows \in [1..n -> DDPGRows(D)] :
        LET batch == [i \in 1..n |-> Transition(i, rows[i].done, rows[i].reward)]
            reward_batch == [i \in 1..n |-> batch[i].reward]
            mask_batch == [i \in 1..n |-> batch[i].mask]
            next_state_action_values == [i \in 1..n |-> rows[i].q]
            expected_state_action_batch ==
                [i \in 1..n |-> BellmanTarget(reward_batch[i], mask_batch[i],
                                              next_state_action_values[i])]
            state_action_batch == [i \in 1..n |-> rows[i].cq]
        IN  loc' = [NoLocals EXCEPT
                        !.fn = "update_parameters",
                        !.n = n,
                        !.done = [i \in 1..n |-> rows[i].done],
                        !.reward = reward_batch,
                        !.mask = mask_batch,
                        !.tq1 = next_state_action_values,
                        !.target_Q = expected_state_action_batch,
                        !.cq1 = state_action_batch,
                        !.loss = MseLoss(state_action_batch,
                                         expected_state_action_batch)]
    /\ critic' \in OptimStep(critic, D.P)
    /\ cnt' = [cnt EXCEPT !.critic = @ + 1]
    /\ pc' = "ddpg_critic"
    /\ UNCHANGED <<actor, actor_target, actor_perturbed, critic_target>>
    /\ UNCHANGED <<algo, tau, max_action, policy_freq, iterations, it, act>>
    /\ UNCHANGED bufvars
    /\ UNCHANGED loopvars

\* lines 135-141: the policy loss, the actor's step
DDPGActorStep(D) ==
    /\ algo = "DDPG"
    /\ pc = "ddpg_critic"
    /\ \E values \in [1..loc.n -> D.PL] :
        loc' = [loc EXCEPT !.policy_loss = PolicyLoss(values)]
    /\ actor' \in OptimStep(actor, D.P)
    /\ cnt' = [cnt EXCEPT !.actor = @ + 1]
    /\ pc' = "ddpg_actor"
    /\ UNCHANGED <<actor_target, actor_perturbed, critic, critic_target>>
    /\ UNCHANGED <<algo, tau, max_action, policy_freq, iterations, it, act>>
    /\ UNCHANGED bufvars
    /\ UNCHANGED loopvars

DDPGTargetStepBeforeActor ==
    /\ algo = "DDPG"
    /\ pc = "ddpg_critic"
    /\ actor_target' = SoftUpdate(actor_target, actor, tau)
    /\ critic_target' = SoftUpdate(critic_target, critic, tau)
    /\ loc' = [loc EXCEPT !.ret = <<loc.loss, loc.policy_loss>>]
    /\ cnt' = [cnt EXCEPT !.target = @ + 1]
    /\ pc' = "idle"
    /\ UNCHANGED <<actor, actor_perturbed, critic>>
    /\ UNCHANGED <<algo, tau, max_action, policy_freq, iterations, it, act>>
    /\ UNCHANGED bufvars
    /\ UNCHANGED loopvars

\* lines 146-149: the soft update of both targets, and the return of
\* value_loss.item(), policy_loss.item()
DDPGTargetStep ==
    /\ algo = "DDPG"
    /\ pc = "ddpg_actor"
    /\ actor_target' = SoftUpdate(actor_target, actor, tau)
    /\ critic_target' = SoftUpdate(critic_target, critic, tau)
    /\ loc' = [loc EXCEPT !.ret = <<loc.loss, loc.policy_loss>>]
    /\ cnt' = [cnt EXCEPT !.target = @ + 1]
    /\ pc' = "idle"
    /\ UNCHANGED <<actor, actor_perturbed, critic>>
    /\ UNCHANGED <<algo, tau, max_action, policy_freq, iterations, it, act>>
    /\ UNCHANGED bufvars
    /\ UNCHANGED loopvars

-----------------------------------------------------------------------------
(* TD3.train(replay_buffer, iterations, ...), iteration by iteration *)

\* one row of the sampled arrays x, y, u, r, d and of what the networks
\* compute on it; d is 1 where the stored step ended its episode
TD3Rows(D) ==
    [d : D.D01, reward : D.R, tq1 : D.Q, tq2 : D.Q2, cq1 : D.CQ, cq2 : D.CQ2,
     a_out : D.AOut, noise : D.ANoise]

\* the call: for it in range(iterations)
TD3TrainCall(D) ==
    /\ algo = "TD3"
    /\ pc = "idle"
    /\ \E n \in D.It, t \in D.Tau :
        /\ cnt.critic + n <= D.Upd
        /\ iterations' = n
        /\ tau' = t
        /\ pc' = IF n > 0 THEN "td3_loop" ELSE "idle"
    /\ it' = 0
    /\ cnt' = [cnt EXCEPT !.base = cnt.actor]
    /\ UNCHANGED netvars
    /\ UNCHANGED <<algo, max_action, policy_freq, loc, act>>
    /\ UNCHANGED bufvars
    /\ UNCHANGED loopvars

\* lines 59-88: the noisy target action, the target Q, the critic loss and
\* the critic's step
TD3CriticStep(D) ==
    /\ algo = "TD3"
    /\ pc = "td3_loop"
    /\ \E n \in D.B : \E rows \in [1..n -> TD3Rows(D)] :
        LET done == [i \in 1..n |-> TD3Mask(rows[i].d)]
            reward == [i \in 1..n |-> rows[i].reward]
            noise == [i \in 1..n |-> Clamp(rows[i].noise, 0 - NoiseClip, NoiseClip)]
            next_action ==
                [i \in 1..n |-> Clamp(rows[i].a_out + noise[i],
                                      0 - max_action, max_action)]
            target_Q1 == [i \in 1..n |-> rows[i].tq1]
            target_Q2 == [i \in 1..n |-> rows[i].tq2]
            min_Q == [i \in 1..n |-> TorchMin(target_Q1[i], target_Q2[i])]
            target_Q == [i \in 1..n |-> BellmanTarget(reward[i], done[i], min_Q[i])]
            current_Q1 == [i \in 1..n |-> rows[i].cq1]
            current_Q2 == [i \in 1..n |-> rows[i].cq2]
        IN  loc' = [NoLocals EXCEPT
                        !.fn = "train",
                        !.n = n,
                        !.done = [i \in 1..n |-> rows[i].d = 1],
                        !.reward = reward,
                        !.mask = done,
                        !.tq1 = target_Q1,
                        !.tq2 = target_Q2,
                        !.min_Q = min_Q,
                        !.target_Q = target_Q,
                        !.cq1 = current_Q1,
                        !.cq2 = current_Q2,
                        !.loss = MseLoss(current_Q1, target_Q)
                                 + MseLoss(current_Q2, target_Q),
                        !.next_action = next_action]
    /\ critic' \in OptimStep(critic, D.P)
    /\ cnt' = [cnt EXCEPT !.critic = @ + 1, !.since = @ + 1]
    /\ pc' = "td3_critic"
    /\ UNCHANGED <<actor, actor_target, actor_perturbed, critic_target>>
    /\ UNCHANGED <<algo, tau, max_action, policy_freq, iterations, it, act>>
    /\ UNCHANGED bufvars
    /\ UNCHANGED loopvars

\* the end of an iteration: the next one, or the return
TD3LoopEnd ==
    /\ it' = it + 1
    /\ pc' = IF it + 1 < iterations THEN "td3_loop" ELSE "idle"

\* lines 91-99: the delayed policy update, when it is due: the actor's step
TD3ActorStep(D) ==
    /\ algo = "TD3"
    /\ pc = "td3_critic"
    /\ PolicyDue(it, policy_freq)
    /\ \E values \in [1..loc.n -> D.PL] :
        loc' = [loc EXCEPT !.policy_loss = PolicyLoss(values)]
    /\ actor' \in OptimStep(actor, D.P)
    /\ cnt' = [cnt EXCEPT !.actor = @ + 1]
    /\ pc' = "td3_actor"
    /\ UNCHANGED <<actor_target, actor_perturbed, critic, critic_target>>
    /\ UNCHANGED <<algo, tau, max_action, policy_freq, iterations, it, act>>
    /\ UNCHANGED bufvars
    /\ UNCHANGED loopvars

\* lines 101-108: the soft update of both targets
TD3TargetStep ==
    /\ algo = "TD3"
    /\ pc = "td3_actor"
    /\ critic_target' = TD3SoftUpdate(critic, critic_target, tau)
    /\ actor_target' = TD3SoftUpdate(actor, actor_target, tau)
    /\ cnt' = [cnt EXCEPT !.target = @ + 1, !.since = 0, !.seen = TRUE,
                          !.dec = TRUE, !.updated = TRUE, !.gap = cnt.since,
                          !.prev = cnt.seen, !.at = it]
    /\ TD3LoopEnd
    /\ UNCHANGED <<actor, actor_perturbed, critic>>
    /\ UNCHANGED <<algo, tau, max_action, policy_freq, iterations, loc, act>>
    /\ UNCHANGED bufvars
    /\ UNCHANGED loopvars

\* line 91, when it is not due
TD3NoPolicyStep ==
    /\ algo = "TD3"
    /\ pc = "td3_critic"
    /\ ~PolicyDue(it, policy_freq)
    /\ cnt' = [cnt EXCEPT !.dec = TRUE, !.updated = FALSE,
                          !.gap = cnt.since, !.prev = cnt.seen, !.at = it]
    /\ TD3LoopEnd
    /\ UNCHANGED netvars
    /\ UNCHANGED <<algo, tau, max_action, policy_freq, iterations, loc, act>>
    /\ UNCHANGED bufvars
    /\ UNCHANGED loopvars

-----------------------------------------------------------------------------
(* perturb_actor_parameters(param_noise), in its two steps *)

\* DDPG line 153, TD3 line 36: the perturbed actor is set to the live one
PerturbSync ==
    /\ pc = "idle"
    /\ actor_perturbed' = IF algo = "DDPG"
                          THEN HardUpdate(actor_perturbed, actor)
                          ELSE LoadStateDict(actor_perturbed, actor)
    /\ pc' = "perturb_sync"
    /\ UNCHANGED <<actor, actor_target, critic, critic_target>>
    /\ UNCHANGED <<algo, tau, max_action, policy_freq, iterations, it, loc, act, cnt>>
    /\ UNCHANGED bufvars
    /\ UNCHANGED loopvars

\* DDPG lines 154-159, TD3 lines 37-42: the noise
PerturbNoise(D) ==
    /\ pc = "perturb_sync"
    /\ \E noise \in [ActorNames -> D.PNoise] :
        actor_perturbed' = AddNoise(actor_perturbed, noise)
    /\ loc' = [NoLocals EXCEPT !.fn = "perturb_actor_parameters"]
    /\ pc' = "idle"
    /\ UNCHANGED <<actor, actor_target, critic, critic_target>>
    /\ UNCHANGED <<algo, tau, max_action, policy_freq, iterations, it, act, cnt>>
    /\ UNCHANGED bufvars
    /\ UNCHANGED loopvars

-----------------------------------------------------------------------------
(* Actions *)

\* TD3Actor.forward: tanh of the last layer's output
ActorForward(pre) == Tanh(pre)

\* TD3Actor.forward(inputs) on any finite inputs
TD3ActorForward(D) ==
    /\ pc = "idle"
    /\ \E pre \in D.Pre :
        act' = [NoAction EXCEPT !.fn = "TD3Actor.forward", !.out = ActorForward(pre)]
    /\ UNCHANGED netvars
    /\ UNCHANGED <<algo, pc, tau, max_action, policy_freq, iterations, it, loc, cnt>>
    /\ UNCHANGED bufvars
    /\ UNCHANGED loopvars

\* DDPG.select_action(state, action_noise, param_noise); mu is what the
\* chosen actor returns, any finite value
DDPGSelectAction(D) ==
    /\ algo = "DDPG"
    /\ pc = "idle"
    /\ \E param_noise \in BOOLEAN, action_noise \in BOOLEAN,
          mu \in D.AOut, noise \in D.ANoise :
        LET noisy == IF action_noise THEN mu + noise ELSE mu
        IN  act' = [fn |-> "select_action", out |-> Clamp(noisy, 0 - One, One),
                    param_noise |-> param_noise, action_noise |-> action_noise]
    /\ UNCHANGED netvars
    /\ UNCHANGED <<algo, pc, tau, max_action, policy_freq, iterations, it, loc, cnt>>
    /\ UNCHANGED bufvars
    /\ UNCHANGED loopvars

\* DDPG.select_target_action(state)
DDPGSelectTargetAction(D) ==
    /\ algo = "DDPG"
    /\ pc = "idle"
    /\ \E mu \in D.AOut :
        act' = [NoAction EXCEPT !.fn = "select_target_action",
                                !.out = Clamp(mu, 0 - One, One)]
    /\ UNCHANGED netvars
    /\ UNCHANGED <<algo, pc, tau, max_action, policy_freq, iterations, it, loc, cnt>>
    /\ UNCHANGED bufvars
    /\ UNCHANGED loopvars

-----------------------------------------------------------------------------
(* Checkpoints: DDPG.save() and DDPG.load_model(model_path) *)

FileNotFoundError == "FileNotFoundError"

\* a path is the sequence of its components: "./trained_models"
TrainedModels == <<".", "trained_models">>

\* os.path.join(dir, name)
PathJoin(dir, name) == Append(dir, name)

\* the directory test.py loads from: "./trained_models/ddpg"
DDPGModelPath == PathJoin(TrainedModels, "ddpg")

\* os.makedirs(path): the directory and every missing parent; an existing
\* directory raises OSError, which save() passes over
MakeDirs(dirs, path) == dirs \cup {SubSeq(path, 1, i) : i \in 2..Len(path)}

\* torch.save(obj, path): the file at path now holds obj
TorchSave(data, path, obj) == (path :> obj) @@ data

\* history: no live networks recorded at a save or after a load
NoNets == [actor |-> <<>>, critic |-> <<>>]

\* no file written, nothing saved or loaded yet
NoFiles ==
    fs = [dirs |-> {}, data |-> <<>>, op |-> None, path |-> <<>>,
          error |-> None, saved |-> FALSE, live |-> NoNets, got |-> NoNets]

\* save(): makedirs of ./trained_models/ddpg, then four torch.save calls;
\* live records the live actor and critic at this save
Save(f) ==
    LET save_path == PathJoin(TrainedModels, "ddpg")
        out == TrainedModels
        d1 == TorchSave(f.data, PathJoin(out, "target_actor_model.pt"), actor_target)
        d2 == TorchSave(d1, PathJoin(out, "target_critic_model.pt"), critic_target)
        d3 == TorchSave(d2, PathJoin(out, "actor_model.pt"), actor)
        d4 == TorchSave(d3, PathJoin(out, "critic_model.pt"), critic)
    IN  [f EXCEPT !.dirs = MakeDirs(f.dirs, save_path),
                  !.data = d4,
                  !.op = "save",
                  !.path = out,
                  !.error = None,
                  !.saved = TRUE,
                  !.live = [actor |-> actor, critic |-> critic]]

\* DDPG.save(), called on its own
DDPGSave ==
    /\ algo = "DDPG"
    /\ pc = "idle"
    /\ fs' = Save(fs)
    /\ UNCHANGED train
    /\ UNCHANGED agentvars
    /\ UNCHANGED bufvars

\* DDPG.load_model(model_path): torch.load of actor_model.pt, then of
\* critic_model.pt; a missing file raises and leaves the rest as it was;
\* got records the live actor and critic the call leaves.
\* The paths come from os.path.join, so neither `is not None` test fails.
DDPGLoadModel ==
    /\ algo = "DDPG"
    /\ pc = "idle"
    /\ \E model_path \in {DDPGModelPath, TrainedModels} :
        LET actor_path == PathJoin(model_path, "actor_model.pt")
            critic_path == PathJoin(model_path, "critic_model.pt")
            has_actor == actor_path \in DOMAIN fs.data
            has_critic == critic_path \in DOMAIN fs.data
        IN  /\ actor' = IF has_actor THEN fs.data[actor_path] ELSE actor
            /\ critic' = IF has_actor /\ has_critic
                         THEN fs.data[critic_path] ELSE critic
            /\ fs' = [fs EXCEPT !.op = "load_model",
                                !.path = model_path,
                                !.error = IF has_actor /\ has_critic
                                          THEN None ELSE FileNotFoundError,
                                !.got = [actor |-> actor', critic |-> critic']]
    /\ UNCHANGED train
    /\ UNCHANGED <<actor_target, actor_perturbed, critic_target>>
    /\ UNCHANGED <<algo, pc, tau, max_action, policy_freq, iterations, it, loc, act, cnt>>
    /\ UNCHANGED bufvars

-----------------------------------------------------------------------------
(* DDPG.train(env, memory, num_episodes, ounoise, param_noise, args, logger) *)

\* the most episodes args.num_episodes asks for
MaxEpisodes == 2

\* the largest args.updates_per_step
MaxUpdatesPerStep == 2

\* if i_episode % 10 == 0
SavePeriod == 10

NameError == "NameError"

IndexError == "IndexError"

\* the arguments of a call, and its locals before the first statement
TrainArgs(num_episodes, batch_size, updates_per_step, param_noise, logger) ==
    [pc |-> "none",
     num_episodes |-> num_episodes,          \* args.num_episodes
     batch_size |-> batch_size,              \* args.batch_size
     updates_per_step |-> updates_per_step,  \* args.updates_per_step
     param_noise |-> param_noise,            \* args.param_noise
     logger |-> logger,                      \* logger is not None
     i_episode |-> 0,
     u |-> 0,                                \* the index of `for _ in range(...)`
     done |-> FALSE,
     rewards |-> 0,                          \* len(rewards)
     updates |-> 0,
     error |-> None,                         \* the exception train raised
     \* history
     ended |-> 0,                            \* episodes whose rollout has ended
     adapts |-> 0,                           \* calls of param_noise.adapt
     saves |-> {},                           \* the episodes that saved
     k |-> 0]                                \* updates made in the last step

\* train is not called
NoTrain == train = TrainArgs(0, 1, 0, FALSE, FALSE)

UpdateDueAlways(len, batch_size) == TRUE

\* if len(memory) > args.batch_size
UpdateDue(len, batch_size) == len > batch_size

\* if done: break, else the next pass of `while True`
AfterStep(done) == IF done THEN "adapt" ELSE "step"

\* lines 204-208: the call
LoopCall ==
    /\ algo = "DDPG"
    /\ pc = "idle"
    /\ train.pc = "none"
    /\ train' = [train EXCEPT !.pc = "episode"]
    /\ UNCHANGED fs
    /\ UNCHANGED agentvars
    /\ UNCHANGED bufvars

\* lines 210-223: the next episode begins; with args.param_noise the
\* perturbed actor is set to the live one and noise is added to it
LoopEpisodeStart(D) ==
    /\ train.pc = "episode"
    /\ train.i_episode < train.num_episodes
    /\ IF train.param_noise
       THEN \E noise \in [ActorNames -> D.PNoise] :
                actor_perturbed' = AddNoise(HardUpdate(actor_perturbed, actor), noise)
       ELSE UNCHANGED actor_perturbed
    /\ train' = [train EXCEPT !.pc = "step"]
    /\ UNCHANGED fs
    /\ UNCHANGED <<actor, actor_target, critic, critic_target>>
    /\ UNCHANGED <<algo, pc, tau, max_action, policy_freq, iterations, it, loc, act, cnt>>
    /\ UNCHANGED bufvars

\* line 210, the range exhausted: train returns
LoopReturn ==
    /\ train.pc = "episode"
    /\ train.i_episode >= train.num_episodes
    /\ train' = [train EXCEPT !.pc = "returned"]
    /\ UNCHANGED fs
    /\ UNCHANGED agentvars
    /\ UNCHANGED bufvars

\* lines 228-249 and 266: select_action, env.step, the push, the guard
LoopStep(D) ==
    /\ train.pc = "step"
    /\ total_numsteps < MaxPushes
    /\ \E mu \in D.AOut, noise \in D.ANoise :
        act' = [fn |-> "select_action", out |-> Clamp(mu + noise, 0 - One, One),
                param_noise |-> train.param_noise, action_noise |-> TRUE]
    /\ \E done \in D.Dn, reward \in D.R :
        LET t == Transition(total_numsteps + 1, done, reward)
            mem == PushMemory(memory, position, capacity, t)
            due == UpdateDue(BufLen(mem), train.batch_size)
        IN  /\ total_numsteps' = total_numsteps + 1
            /\ memory' = mem
            /\ position' = PushPosition(position, capacity)
            /\ pushed' = Append(pushed, t)
            /\ train' = [train EXCEPT
                   !.done = done, !.u = 0, !.k = 0,
                   !.ended = IF (~due \/ train.updates_per_step = 0) /\ done
                             THEN @ + 1 ELSE @,
                   !.pc = IF due /\ train.updates_per_step > 0
                          THEN "sample" ELSE AfterStep(done)]
    /\ bop' = "push"
    /\ UNCHANGED <<capacity, sample_req, sample_out>>
    /\ UNCHANGED fs
    /\ UNCHANGED netvars
    /\ UNCHANGED <<algo, pc, tau, max_action, policy_freq, iterations, it, loc, cnt>>

\* line 254: transitions = memory.sample(args.batch_size)
LoopSample ==
    /\ train.pc = "sample"
    /\ sample_req' = train.batch_size
    /\ sample_out' \in Sample(memory, train.batch_size)
    /\ bop' = "sample"
    /\ train' = IF sample_out'.error = None
                THEN [train EXCEPT !.pc = "update"]
                ELSE [train EXCEPT !.pc = "raised", !.error = sample_out'.error]
    /\ UNCHANGED <<capacity, memory, position, total_numsteps, pushed>>
    /\ UNCHANGED fs
    /\ UNCHANGED agentvars

\* line 260: update_parameters(batch) on the sampled batch, its critic step
LoopCriticStep(D) ==
    /\ train.pc = "update"
    /\ cnt.critic = train.updates
    /\ DDPGCriticStep(D)
    /\ loc'.n = Len(sample_out.batch)
    /\ loc'.reward = [i \in 1..loc'.n |-> sample_out.batch[i].reward]
    /\ loc'.mask = [i \in 1..loc'.n |-> sample_out.batch[i].mask]

\* its actor step
LoopActorStep(D) ==
    /\ train.pc = "update"
    /\ DDPGActorStep(D)

\* its soft updates and its return
LoopTargetStep ==
    /\ train.pc = "update"
    /\ DDPGTargetStep

\* lines 265, 250 and 266: updates += 1, then the next update or the end
\* of the step
LoopUpdated ==
    /\ train.pc = "update"
    /\ pc = "idle"
    /\ cnt.target = train.updates + 1
    /\ LET last == train.u + 1 >= train.updates_per_step
       IN  train' = [train EXCEPT
               !.updates = @ + 1, !.u = @ + 1, !.k = @ + 1,
               !.ended = IF last /\ train.done THEN @ + 1 ELSE @,
               !.pc = IF last THEN AfterStep(train.done) ELSE "sample"]
    /\ UNCHANGED fs
    /\ UNCHANGED agentvars
    /\ UNCHANGED bufvars

\* lines 274-282, the episode's rollout over: with args.param_noise, line
\* 276 reads t, a name bound neither in train nor in the module, and so
\* raises NameError before param_noise.adapt is reached
LoopAdapt ==
    /\ train.pc = "adapt"
    /\ train' = IF train.param_noise
                THEN [train EXCEPT !.pc = "raised", !.error = NameError]
                ELSE [train EXCEPT !.pc = "log"]
    /\ UNCHANGED fs
    /\ UNCHANGED agentvars
    /\ UNCHANGED bufvars

\* lines 287-333: with a logger, one evaluation episode of the live actor
\* and one of the target actor, each appending its return to rewards
LoopEvaluate(D) ==
    /\ train.pc = "log"
    /\ IF train.logger
       THEN /\ \E mu \in D.AOut :
                act' = [NoAction EXCEPT !.fn = "select_target_action",
                                        !.out = Clamp(mu, 0 - One, One)]
            /\ train' = [train EXCEPT !.pc = "save", !.rewards = @ + 2]
       ELSE /\ UNCHANGED act
            /\ train' = [train EXCEPT !.pc = "save"]
    /\ UNCHANGED fs
    /\ UNCHANGED netvars
    /\ UNCHANGED <<algo, pc, tau, max_action, policy_freq, iterations, it, loc, cnt>>
    /\ UNCHANGED bufvars

\* lines 336-353: every SavePeriod-th episode saves and then prints
\* rewards[-1], which raises IndexError on an empty list
LoopSave ==
    /\ train.pc = "save"
    /\ pc = "idle"
    /\ IF train.i_episode % SavePeriod = 0
       THEN /\ fs' = Save(fs)
            /\ train' = IF train.rewards = 0
                        THEN [train EXCEPT !.saves = @ \cup {train.i_episode},
                                           !.pc = "raised", !.error = IndexError]
                        ELSE [train EXCEPT !.saves = @ \cup {train.i_episode},
                                           !.pc = "episode", !.i_episode = @ + 1]
       ELSE /\ UNCHANGED fs
            /\ train' = [train EXCEPT !.pc = "episode", !.i_episode = @ + 1]
    /\ UNCHANGED agentvars
    /\ UNCHANGED bufvars

-----------------------------------------------------------------------------
(* Specifications.  The replay buffer is looked at alone.  The agent is    *)
(* looked at under four sets of inputs: its parameters and target updates  *)
(* (the rows of a batch all alike), the schedule of its updates over       *)
(* several train calls, the arithmetic of an update on varied rows (the    *)
(* parameters all zero), and the actions it produces.  The checkpoints of  *)
(* a DDPG agent are looked at between its updates, and DDPG.train is run   *)
(* from its call on, over every choice of its arguments.                   *)

InitBuffer ==
    /\ \E cap \in 1..MaxCapacity : EmptyBuffer(cap)
    /\ NoAgent
    /\ NoTrain
    /\ NoFiles

NextBuffer == TrainPush \/ SampleCall

SpecBuffer == InitBuffer /\ [][NextBuffer]_vars

\* the inputs common to all
DomBase ==
    [P |-> {0}, Tau |-> {1}, Pf |-> {2}, It |-> {1, 2}, Upd |-> 2, B |-> {1},
     Dn |-> {FALSE}, D01 |-> {0}, R |-> {1}, Q |-> {1}, Q2 |-> {0}, CQ |-> {0}, CQ2 |-> {1},
     PL |-> {1},
     Pre |-> {0}, AOut |-> {0}, ANoise |-> {0}, PNoise |-> {1}, MaxA |-> {One}]

DomNets ==
    [DomBase EXCEPT !.P = {0, 2}, !.Tau = 0..TauDen, !.PNoise = {0, 1}]

DomTrain ==
    [DomBase EXCEPT !.Pf = {1, 2, 3}, !.It = 0..MaxUpdates, !.Upd = MaxUpdates]

DomBellman ==
    [DomBase EXCEPT !.B = {1, 2}, !.Dn = BOOLEAN, !.D01 = {0, 1},
                    !.R = {0, 1}, !.Q = {0 - 1, 1}, !.CQ = {0, 1}]

DomAct ==
    [DomBase EXCEPT !.Pre = {0 - 8, 0 - 3, 0 - 1, 0, 2, 4, 6},
                    !.AOut = {0 - 9, 0 - 3, 0, 1, 5}, !.ANoise = {0 - 6, 0 - 1, 0, 3},
                    !.MaxA = {2, 4, 8}]

InitAgent(D) == Allocated(D) /\ EmptyBuffer(1) /\ NoTrain /\ NoFiles

NextNets ==
    \/ DDPGInit
    \/ TD3Init
    \/ DDPGCriticStep(DomNets)
    \/ DDPGActorStep(DomNets)
    \/ DDPGTargetStep
    \/ TD3TrainCall(DomNets)
    \/ TD3CriticStep(DomNets)
    \/ TD3ActorStep(DomNets)
    \/ TD3TargetStep
    \/ TD3NoPolicyStep
    \/ PerturbSync
    \/ PerturbNoise(DomNets)

SpecNets == InitAgent(DomNets) /\ [][NextNets]_vars

NextTrain ==
    \/ DDPGInit
    \/ TD3Init
    \/ DDPGCriticStep(DomTrain)
    \/ DDPGActorStep(DomTrain)
    \/ DDPGTargetStep
    \/ TD3TrainCall(DomTrain)
    \/ TD3CriticStep(DomTrain)
    \/ TD3ActorStep(DomTrain)
    \/ TD3TargetStep
    \/ TD3NoPolicyStep

SpecTrain == InitAgent(DomTrain) /\ [][NextTrain]_vars

NextBellman ==
    \/ DDPGInit
    \/ TD3Init
    \/ DDPGCriticStep(DomBellman)
    \/ DDPGActorStep(DomBellman)
    \/ DDPGTargetStep
    \/ TD3TrainCall(DomBellman)
    \/ TD3CriticStep(DomBellman)
    \/ TD3ActorStep(DomBellman)
    \/ TD3TargetStep
    \/ TD3NoPolicyStep

SpecBellman == InitAgent(DomBellman) /\ [][NextBellman]_vars

NextAct ==
    \/ DDPGInit
    \/ TD3Init
    \/ TD3ActorForward(DomAct)
    \/ DDPGSelectAction(DomAct)
    \/ DDPGSelectTargetAction(DomAct)
    \/ TD3TrainCall(DomAct)
    \/ TD3CriticStep(DomAct)
    \/ TD3ActorStep(DomAct)
    \/ TD3TargetStep
    \/ TD3NoPolicyStep

SpecAct == InitAgent(DomAct) /\ [][NextAct]_vars

InitCkpt == InitAgent(DomNets) /\ algo = "DDPG"

NextCkpt ==
    \/ DDPGInit
    \/ DDPGCriticStep(DomNets)
    \/ DDPGActorStep(DomNets)
    \/ DDPGTargetStep
    \/ DDPGSave
    \/ DDPGLoadModel

SpecCkpt == InitCkpt /\ [][NextCkpt]_vars

DomLoop ==
    [DomBase EXCEPT !.B = 1..MaxBatch, !.Dn = BOOLEAN,
                    !.Upd = MaxPushes * MaxUpdatesPerStep]

InitLoop ==
    /\ Allocated(DomLoop)
    /\ algo = "DDPG"
    /\ \E cap \in 1..MaxCapacity : EmptyBuffer(cap)
    /\ NoFiles
    /\ \E ne \in 0..MaxEpisodes, bs \in 1..MaxBatch, ups \in 0..MaxUpdatesPerStep,
          pn \in BOOLEAN, lg \in BOOLEAN :
        train = TrainArgs(ne, bs, ups, pn, lg)

NextLoop ==
    \/ DDPGInit
    \/ LoopCall
    \/ LoopEpisodeStart(DomLoop)
    \/ LoopReturn
    \/ LoopStep(DomLoop)
    \/ LoopSample
    \/ LoopCriticStep(DomLoop)
    \/ LoopActorStep(DomLoop)
    \/ LoopTargetStep
    \/ LoopUpdated
    \/ LoopAdapt
    \/ LoopEvaluate(DomLoop)
    \/ LoopSave

SpecLoop == InitLoop /\ [][NextLoop]_vars

-----------------------------------------------------------------------------
(* Claims about the replay buffer *)

\* the last n elements of a sequence
LastN(s, n) == {s[i] : i \in (Len(s) - Min(n, Len(s)) + 1)..Len(s)}

\* C1: after N pushes into an empty buffer of capacity C the buffer holds
\* min(N, C) transitions, never more than C, and they are exactly the
\* min(N, C) most recently pushed ones.
C1_LenAndRecent ==
    /\ BufLen(memory) = Min(Len(pushed), capacity)
    /\ BufLen(memory) <= capacity
    /\ Range(memory) = LastN(pushed, capacity)
    /\ Cardinality(Range(memory)) = BufLen(memory)

C1_Witness ==
    /\ Len(pushed) > capacity
    /\ capacity > 1
    /\ position # 0
    /\ memory[1].step > memory[capacity].step

\* C2: a sample(batch_size) call on fewer than batch_size stored transitions
\* ends in InsufficientDataError, and otherwise does not; either way the
\* buffer's contents, length and insertion position are as before the call.
C2_SampleUnderfilled ==
    [][bop' = "sample" =>
        /\ (sample_out'.error = InsufficientDataError) <=> (BufLen(memory) < sample_req')
        /\ memory' = memory
        /\ position' = position
        /\ BufLen(memory') = BufLen(memory)]_vars

C2_Witness ==
    /\ bop = "sample"
    /\ sample_out.error = InsufficientDataError
    /\ BufLen(memory) > 0

\* C3: a successful sample(B) returns exactly B transitions, all stored in
\* the buffer, no slot twice.
C3_SampleDistinct ==
    (bop = "sample" /\ BufLen(memory) >= sample_req) =>
        /\ sample_out.error = None
        /\ Len(sample_out.batch) = sample_req
        /\ \A i \in 1..sample_req : sample_out.batch[i] \in Range(memory)
        /\ \A i, j \in 1..sample_req :
            i # j => sample_out.batch[i].step # sample_out.batch[j].step

C3_Witness ==
    /\ bop = "sample"
    /\ sample_req = 2
    /\ BufLen(memory) > 2
    /\ sample_out.error = None

-----------------------------------------------------------------------------
(* Claims about the agents *)

Abs(x) == IF x < 0 THEN 0 - x ELSE x

\* the ceiling of a / b
CeilDiv(a, b) == (a + b - 1) \div b

\* the sum of f[1] .. f[n]
RECURSIVE SumTo(_, _)
SumTo(f, n) == IF n = 0 THEN 0 ELSE f[n] + SumTo(f, n - 1)

\* the square of an estimate's error against a target kept times GammaDen
SqErr(estimate, target) ==
    (estimate * GammaDen - target) * (estimate * GammaDen - target)

\* every DDPG.update_parameters call that has returned made one critic step,
\* one actor step and one soft update of the targets
DDPGUpdatesAll ==
    (algo = "DDPG" /\ pc = "idle") =>
        (cnt.actor = cnt.critic /\ cnt.target = cnt.critic)

\* C4 as stated: in TD3 a critic update comes with an actor/target update if
\* and only if the number of critic updates since the previous actor/target
\* update, counted over the whole run, is a multiple of policy_freq; in DDPG
\* every update_parameters call updates the actor and both targets.
C4_CountedOverRun ==
    /\ (algo = "TD3" /\ cnt.dec /\ cnt.prev) =>
            (cnt.updated <=> (cnt.gap % policy_freq = 0))
    /\ DDPGUpdatesAll

\* C4 as amended: in TD3 a critic update comes with an actor step and a soft
\* update of both targets if and only if its index `it` within the current
\* train call is a multiple of policy_freq, so that a call which has made
\* `it` critic updates has made ceil(it / policy_freq) actor/target updates;
\* in DDPG every update_parameters call updates the actor and both targets.
C4_CountedPerCall ==
    /\ (algo = "TD3" /\ cnt.dec) =>
            (cnt.updated <=> (cnt.at % policy_freq = 0))
    /\ (algo = "TD3" /\ pc \in {"td3_loop", "idle"}) =>
            /\ cnt.actor - cnt.base = CeilDiv(it, policy_freq)
            /\ cnt.target = cnt.actor
    /\ DDPGUpdatesAll

\* a second call's first critic update comes with an actor/target update,
\* one critic update after the previous one, under policy_freq = 2
C4_Witness ==
    /\ algo = "TD3"
    /\ policy_freq = 2
    /\ cnt.dec /\ cnt.prev /\ cnt.updated
    /\ cnt.gap = 1
    /\ cnt.at = 0

\* C5: the Bellman target of every row of a batch is
\* reward + gamma * done_mask * target_Q, done_mask being 0 where the stored
\* step reported done and 1 elsewhere; on a terminal row it is the reward,
\* whatever the target critic's value (DDPG.update_parameters and TD3.train).
C5_BellmanTarget ==
    (loc.fn \in {"update_parameters", "train"}) =>
        \A i \in 1..loc.n :
            LET q == IF loc.fn = "train" THEN loc.min_Q[i] ELSE loc.tq1[i]
                done_mask == IF loc.done[i] THEN 0 ELSE 1
            IN  /\ loc.target_Q[i] =
                        loc.reward[i] * GammaDen + GammaNum * done_mask * q
                /\ loc.done[i] => loc.target_Q[i] = loc.reward[i] * GammaDen

C5_Witness ==
    /\ loc.fn = "update_parameters"
    /\ loc.n = 2
    /\ loc.done[1] /\ loc.tq1[1] # 0
    /\ ~loc.done[2] /\ loc.tq1[2] # 0

\* C6: in TD3.train the target Q of each row is the smaller of the two target
\* critic heads' values, whichever head it is; that one target is the target
\* of both live heads, and the critic loss is the sum of the two heads'
\* mean-squared errors against it.
C6_TwinMin ==
    (loc.fn = "train") =>
        /\ \A i \in 1..loc.n :
            /\ loc.min_Q[i] <= loc.tq1[i]
            /\ loc.min_Q[i] <= loc.tq2[i]
            /\ loc.min_Q[i] \in {loc.tq1[i], loc.tq2[i]}
            /\ loc.target_Q[i] =
                    loc.reward[i] * GammaDen + GammaNum * loc.mask[i] * loc.min_Q[i]
        /\ loc.loss =
                SumTo([i \in 1..loc.n |-> SqErr(loc.cq1[i], loc.target_Q[i])], loc.n)
              + SumTo([i \in 1..loc.n |-> SqErr(loc.cq2[i], loc.target_Q[i])], loc.n)

C6_Witness ==
    /\ loc.fn = "train"
    /\ loc.n = 2
    /\ loc.tq1[1] > loc.tq2[1]
    /\ loc.tq1[2] < loc.tq2[2]
    /\ loc.cq1[1] # loc.cq2[1]

\* C7: hard_update(target, source) leaves every parameter of target equal to
\* source's and source as it was; the constructors leave the target actor
\* equal to the live actor and the target critic equal to the live critic.
C7_HardUpdate ==
    [][/\ (pc = "alloc" /\ pc' = "idle") =>
            /\ \A n \in ActorNames : actor_target'[n] = actor[n]
            /\ \A n \in CriticNames : critic_target'[n] = critic[n]
            /\ actor_target' = actor'
            /\ critic_target' = critic'
            /\ actor' = actor
            /\ critic' = critic
       /\ (algo = "DDPG" /\ pc = "idle" /\ pc' = "perturb_sync") =>
            /\ \A n \in ActorNames : actor_perturbed'[n] = actor[n]
            /\ actor' = actor]_vars

C7_Witness ==
    /\ algo = "DDPG"
    /\ pc = "idle"
    /\ cnt.critic = 0
    /\ actor_target = actor
    /\ critic_target = critic
    /\ actor["mu.weight"] # actor["ln1.weight"]
    /\ actor_perturbed # actor

\* (1 - tau) * target + tau * source, tau being t / TauDen
Lerp(target, source, t) == ((TauDen - t) * target + t * source) \div TauDen

\* what a soft update of target from source leaves, source being untouched
SoftUpdated(target, source, target2, source2, t) ==
    /\ source2 = source
    /\ DOMAIN target2 = DOMAIN target
    /\ \A n \in DOMAIN target : target2[n] = Lerp(target[n], source[n], t)
    /\ t = TauDen => target2 = HardUpdate(target, source)
    /\ t = 0 => target2 = target

\* C8: a soft update sets each target parameter to
\* (1 - tau) * target + tau * source and leaves source as it was; with
\* tau = 1 the target is what hard_update gives, with tau = 0 it is as before
\* (soft_update in DDPG.update_parameters, the loops of TD3.train).
C8_SoftUpdate ==
    [][/\ (pc = "ddpg_actor" /\ pc' = "idle") =>
            /\ SoftUpdated(actor_target, actor, actor_target', actor', tau)
            /\ SoftUpdated(critic_target, critic, critic_target', critic', tau)
       /\ (pc = "td3_actor" /\ pc' # "td3_actor") =>
            /\ SoftUpdated(actor_target, actor, actor_target', actor', tau)
            /\ SoftUpdated(critic_target, critic, critic_target', critic', tau)]_vars

C8_Witness ==
    /\ algo = "DDPG"
    /\ pc = "idle"
    /\ cnt.target > 0
    /\ 0 < tau /\ tau < TauDen
    /\ actor_target # actor
    /\ \E n \in ActorNames : actor_target[n] = 1

\* C9 as stated: after perturb_actor_parameters every parameter of the
\* perturbed actor whose name contains 'ln' equals the live actor's, and the
\* call leaves the live actor and the target actor as they were.
C9_LayerNormSkipped ==
    (pc = "idle" /\ loc.fn = "perturb_actor_parameters") =>
        \A n \in ActorNames :
            IsLayerNorm(n) => actor_perturbed[n] = actor[n]

\* C10 as stated: every action an actor produces, and the noisy target
\* action of TD3.train, is within [-max_action, max_action].
C10_WithinMaxAction ==
    /\ (act.fn # None) => Abs(act.out) <= max_action
    /\ (loc.fn = "train") =>
            \A i \in 1..loc.n : Abs(loc.next_action[i]) <= max_action

\* C10 as amended: what TD3Actor.forward returns and what DDPG.select_action
\* returns, with or without action noise and parameter noise, is within
\* [-1, 1], whatever max_action is; the noisy target action of TD3.train is
\* within [-max_action, max_action].
C10_WithinOne ==
    /\ (act.fn # None) => Abs(act.out) <= One
    /\ (loc.fn = "train") =>
            \A i \in 1..loc.n : Abs(loc.next_action[i]) <= max_action

C10_Witness ==
    /\ max_action < One
    /\ act.fn = "select_action"
    /\ act.action_noise
    /\ act.param_noise
    /\ act.out = One

-----------------------------------------------------------------------------
(* Claims about the checkpoints *)

\* C11 as stated: a load_model('./trained_models/ddpg') that follows a
\* save() finds the files the save wrote and restores a live actor and a
\* live critic equal to the ones saved.
C11_RoundTrip ==
    (fs.saved /\ fs.op = "load_model" /\ fs.path = DDPGModelPath) =>
        /\ fs.error = None
        /\ fs.got = fs.live

-----------------------------------------------------------------------------
(* Claims about DDPG.train *)

\* train stands between two steps: no update of the last step is pending
BetweenSteps == train.pc \notin {"sample", "update"}

-----------------------------------------------------------------------------
(* Claims about the order of one update *)

\* C13: each DDPG.update_parameters call makes, in this order, one critic
\* optimizer step, one actor optimizer step, and then one soft update of
\* the target actor and one of the target critic with the agent's tau; the
\* targets change only in the soft-update step, the optimizer steps leave
\* them as they were; the call returns the pair (critic loss, actor loss).
C13_UpdateOrder ==
    [][(algo = "DDPG" /\ pc # "alloc") =>
        \* the critic's step opens a call, every earlier call being complete
        /\ (cnt'.critic # cnt.critic) =>
                /\ pc = "idle" /\ pc' = "ddpg_critic"
                /\ cnt'.critic = cnt.critic + 1
                /\ cnt.actor = cnt.critic /\ cnt.target = cnt.critic
                /\ actor' = actor
                /\ actor_target' = actor_target /\ critic_target' = critic_target
        \* the actor's step follows the critic's
        /\ (cnt'.actor # cnt.actor) =>
                /\ pc = "ddpg_critic" /\ pc' = "ddpg_actor"
                /\ cnt'.actor = cnt.actor + 1
                /\ cnt'.actor = cnt.critic /\ cnt.target = cnt.actor
                /\ critic' = critic
                /\ actor_target' = actor_target /\ critic_target' = critic_target
        \* the soft updates follow the actor's step and end the call
        /\ (cnt'.target # cnt.target) =>
                /\ pc = "ddpg_actor" /\ pc' = "idle"
                /\ cnt'.target = cnt.target + 1
                /\ cnt'.target = cnt.actor /\ cnt'.target = cnt.critic
                /\ SoftUpdated(actor_target, actor, actor_target', actor', tau)
                /\ SoftUpdated(critic_target, critic, critic_target', critic', tau)
                /\ loc'.ret = <<MseLoss(loc.cq1, loc.target_Q), loc.policy_loss>>
        \* nothing else touches the targets, and a call is left only this way
        /\ (actor_target' # actor_target \/ critic_target' # critic_target) =>
                cnt'.target = cnt.target + 1
        /\ (pc = "ddpg_critic" /\ pc' # pc) => cnt'.actor = cnt.actor + 1
        /\ (pc = "ddpg_actor" /\ pc' # pc) => cnt'.target = cnt.target + 1
        /\ (pc' = "idle" /\ pc # "idle" /\ loc'.fn = "update_parameters") =>
                (loc'.ret # <<>> /\ cnt'.target = cnt.target + 1)]_vars

\* a second call has returned, its soft update with 0 < tau < 1 having moved
\* a target parameter half way to the live actor's
C13_Witness ==
    /\ algo = "DDPG"
    /\ pc = "idle"
    /\ cnt.critic = 2 /\ cnt.actor = 2 /\ cnt.target = 2
    /\ loc.fn = "update_parameters"
    /\ loc.ret = <<loc.loss, loc.policy_loss>>
    /\ tau = 1
    /\ \E n \in ActorNames : actor[n] = 2 /\ actor_target[n] = 1
    /\ critic_target # critic

-----------------------------------------------------------------------------
(* Claims about the end of an episode *)

\* train is past the parameter-noise block of the episode that last ended,
\* or has stopped in it
PastAdapt == train.pc \in {"log", "save", "episode", "returned", "raised"}

\* C14 as stated: with parameter noise enabled, param_noise.adapt has been
\* called exactly once for every training episode that has ended, on the
\* distance over that episode's stored transitions, and train goes on.
C14_AdaptEachEpisode ==
    (train.param_noise /\ PastAdapt) =>
        /\ train.adapts = train.ended
        /\ train.error = None

\* the episodes 0 .. n - 1 whose index is a multiple of SavePeriod
SavingEpisodes(n) == {e \in 0..(n - 1) : e % SavePeriod = 0}

\* C15 as stated: with parameter noise disabled, and every episode reporting
\* done, train raises nothing, with or without a logger; when it returns it
\* has run exactly num_episodes episodes and has saved a checkpoint at the
\* end of every episode whose index is a multiple of 10, and of no other.
C15_RunsAllEpisodes ==
    (~train.param_noise) =>
        /\ train.pc # "raised"
        /\ train.error = None
        /\ (train.pc = "returned") =>
                /\ train.i_episode = train.num_episodes
                /\ train.ended = train.num_episodes
                /\ train.saves = SavingEpisodes(train.num_episodes)

====
